---- MODULE Spec2Model ----
(***************************************************************************)
(* TaskStore of the Task Manager app (hooks/useTasks.tsx, TaskProvider).   *)
(*                                                                         *)
(* The provider keeps the task list in a React state cell:                 *)
(*     const [tasks, setTasks] = useState<Task[]>([])                      *)
(* Every mutation hands setTasks either an updater (prev => next) or a     *)
(* value.  React applies the queued updates in issue order, each to the    *)
(* result of the one before, and the provider's closures see the outcome   *)
(* only after the next render.  The model therefore keeps two sequences:   *)
(*   pending : the state cell after all updates issued so far              *)
(*   tasks   : the value bound to `tasks` in the provider's last render    *)
(*             (what observers read and what clearAllTasks' closure reads) *)
(***************************************************************************)
EXTENDS Integers, Sequences, FiniteSets, TLC

VARIABLES tasks, pending, before, nextId, unrendered, toggles, last,
          clock, hist, trip, ui

vars == <<tasks, pending, before, nextId, unrendered, toggles, last,
          clock, hist, trip, ui>>

(* ---------------------------- bounds ----------------------------------- *)
\* addTask is offered while the list is shorter than this
MaxTasks == 3
\* the clock returns a value in 1..MaxTime
MaxTime == 2
\* clock values of SpecOrder: 1..MaxOrderTime
MaxOrderTime == 3
\* mutations that may be issued before the provider re-renders (SpecBatch)
MaxBatch == 2
\* tasks the list holds where the text fields are exercised (SpecInput)
MaxItems == 2
\* TaskItems that may be in edit mode at the same time (SpecInput)
MaxEditors == 1

\* number of ids the generator hands out in one run
MaxId == MaxTasks
Ids == 1..MaxId
Times == 1..MaxTime
OrderTimes == 1..MaxOrderTime
Titles == {"", "a"}
\* what a user can have typed into a text field: a text is the sequence of
\* its characters; empty, blank, bare, and with leading, trailing,
\* surrounding and inner whitespace
Texts ==
  { <<>>, <<" ">>, <<"a">>, <<" ", "a">>, <<"a", " ">>, <<" ", "a", " ">>,
    <<"a", " ", "a">> }

(* ------------------------- array helpers ------------------------------- *)
\* mutant of mapToggle: the callback sets completed instead of flipping it
mapToggleSetCompleted(prev, id) ==
  [i \in 1..Len(prev) |->
     IF prev[i].id = id THEN [prev[i] EXCEPT !.completed = TRUE] ELSE prev[i]]

\* mutant of mapToggle: the toggled copy also gets a new createdAt
mapToggleRestamp(prev, id) ==
  [i \in 1..Len(prev) |->
     IF prev[i].id = id
     THEN [prev[i] EXCEPT !.completed = ~prev[i].completed,
                          !.createdAt = prev[i].createdAt + 1]
     ELSE prev[i]]

\* mutant of mapToggle: the callback flips every task
mapToggleAll(prev, id) ==
  [i \in 1..Len(prev) |-> [prev[i] EXCEPT !.completed = ~prev[i].completed]]

\* Array.prototype.map with the toggle callback: flip completed where id matches
mapToggle(prev, id) ==
  [i \in 1..Len(prev) |->
     IF prev[i].id = id THEN [prev[i] EXCEPT !.completed = ~prev[i].completed]
                        ELSE prev[i]]

\* Array.prototype.find(task => task.id === id) gives the first match or
\* undefined; found(...) is the `!toggledTask` test, find(...) the match
found(arr, id) == \E i \in 1..Len(arr) : arr[i].id = id

find(arr, id) ==
  arr[CHOOSE i \in 1..Len(arr) :
        /\ arr[i].id = id
        /\ \A j \in 1..(i - 1) : arr[j].id # id]

\* mutant of filterOthers: the filter keeps every task
filterOthersKeepsAll(arr, id) == arr

\* Array.prototype.filter(task => task.id !== id)
filterOthers(arr, id) == SelectSeq(arr, LAMBDA t : t.id # id)

\* Array.prototype.filter(task => !task.completed) / (task => task.completed)
filterIncomplete(arr) == SelectSeq(arr, LAMBDA t : ~t.completed)

filterCompleted(arr) == SelectSeq(arr, LAMBDA t : t.completed)

\* new Date(d).getTime(): createdAt is held as its millisecond count
getTime(d) == d

\* Array.prototype.splice(index, 0, item), index counted from 0
splice(arr, index, item) ==
  SubSeq(arr, 1, index) \o <<item>> \o SubSeq(arr, index + 1, Len(arr))

\* mutant of insertLoop: the comparison is >= instead of >
RECURSIVE insertLoopNotStrict(_, _, _, _)
insertLoopNotStrict(toggledTask, incompleteTasks, i, insertIndex) ==
  IF i < Len(incompleteTasks)
  THEN IF toggledTask.createdAt >= incompleteTasks[i + 1].createdAt
       THEN i
       ELSE insertLoopNotStrict(toggledTask, incompleteTasks, i + 1, i + 1)
  ELSE insertIndex

\* mutant of insertLoop: the line `insertIndex = i + 1` is missing
RECURSIVE insertLoopNoAdvance(_, _, _, _)
insertLoopNoAdvance(toggledTask, incompleteTasks, i, insertIndex) ==
  IF i < Len(incompleteTasks)
  THEN IF toggledTask.createdAt > incompleteTasks[i + 1].createdAt
       THEN i
       ELSE insertLoopNoAdvance(toggledTask, incompleteTasks, i + 1, insertIndex)
  ELSE insertIndex

\* mutant of insertLoop: the comparison is < instead of >
RECURSIVE insertLoopReversed(_, _, _, _)
insertLoopReversed(toggledTask, incompleteTasks, i, insertIndex) ==
  IF i < Len(incompleteTasks)
  THEN IF toggledTask.createdAt < incompleteTasks[i + 1].createdAt
       THEN i
       ELSE insertLoopReversed(toggledTask, incompleteTasks, i + 1, i + 1)
  ELSE insertIndex

\* the for loop of toggleTask: i and insertIndex are the loop's variables
\* (0-based); returns insertIndex at loop exit
RECURSIVE insertLoop(_, _, _, _)
insertLoop(toggledTask, incompleteTasks, i, insertIndex) ==
  IF i < Len(incompleteTasks)
  THEN IF getTime(toggledTask.createdAt) > getTime(incompleteTasks[i + 1].createdAt)
       THEN i
       ELSE insertLoop(toggledTask, incompleteTasks, i + 1, i + 1)
  ELSE insertIndex

(* --------------------------- updaters ---------------------------------- *)
\* mutant of addTaskUpdater: the new task is appended
addTaskUpdaterAppend(prev, newTask) == prev \o <<newTask>>

\* setTasks((prev) => [newTask, ...prev])
addTaskUpdater(prev, newTask) == <<newTask>> \o prev

\* mutant of toggleTaskUpdater: the flag is flipped in place, nothing moves
toggleTaskUpdaterInPlace(prev, id) == mapToggle(prev, id)

\* mutant of toggleTaskUpdater: a task that becomes completed is put first
toggleTaskUpdaterFront(prev, id) ==
  LET updatedTasks == mapToggle(prev, id) IN
  IF ~found(updatedTasks, id) THEN prev
  ELSE
    LET toggledTask == find(updatedTasks, id)
        otherTasks == filterOthers(updatedTasks, id)
    IN IF toggledTask.completed
       THEN <<toggledTask>> \o otherTasks
       ELSE LET incompleteTasks == filterIncomplete(otherTasks)
                completedTasks == filterCompleted(otherTasks)
                insertIndex == insertLoop(toggledTask, incompleteTasks, 0, 0)
            IN splice(incompleteTasks, insertIndex, toggledTask) \o completedTasks

\* mutant of toggleTaskUpdater: a task that becomes completed is put at the
\* head of the completed group
toggleTaskUpdaterDoneFirst(prev, id) ==
  LET updatedTasks == mapToggle(prev, id) IN
  IF ~found(updatedTasks, id) THEN prev
  ELSE
    LET toggledTask == find(updatedTasks, id)
        otherTasks == filterOthers(updatedTasks, id)
        incompleteTasks == filterIncomplete(otherTasks)
        completedTasks == filterCompleted(otherTasks)
    IN IF toggledTask.completed
       THEN incompleteTasks \o <<toggledTask>> \o completedTasks
       ELSE LET insertIndex == insertLoop(toggledTask, incompleteTasks, 0, 0)
            IN splice(incompleteTasks, insertIndex, toggledTask) \o completedTasks

\* mutant of toggleTaskUpdater: a task that becomes incomplete is put at the
\* very front
toggleTaskUpdaterActiveFront(prev, id) ==
  LET updatedTasks == mapToggle(prev, id) IN
  IF ~found(updatedTasks, id) THEN prev
  ELSE
    LET toggledTask == find(updatedTasks, id)
        otherTasks == filterOthers(updatedTasks, id)
    IN IF toggledTask.completed
       THEN otherTasks \o <<toggledTask>>
       ELSE LET incompleteTasks == filterIncomplete(otherTasks)
                completedTasks == filterCompleted(otherTasks)
            IN <<toggledTask>> \o incompleteTasks \o completedTasks

\* mutant of toggleTaskUpdater: the reactivation returns the completed group
\* before the incomplete one
toggleTaskUpdaterGroupsSwapped(prev, id) ==
  LET updatedTasks == mapToggle(prev, id) IN
  IF ~found(updatedTasks, id) THEN prev
  ELSE
    LET toggledTask == find(updatedTasks, id)
        otherTasks == filterOthers(updatedTasks, id)
    IN IF toggledTask.completed
       THEN otherTasks \o <<toggledTask>>
       ELSE LET incompleteTasks == filterIncomplete(otherTasks)
                completedTasks == filterCompleted(otherTasks)
                insertIndex == insertLoop(toggledTask, incompleteTasks, 0, 0)
            IN completedTasks \o splice(incompleteTasks, insertIndex, toggledTask)

\* the updater passed to setTasks in toggleTask
toggleTaskUpdater(prev, id) ==
  LET updatedTasks == mapToggle(prev, id) IN
  IF ~found(updatedTasks, id) THEN prev
  ELSE
    LET toggledTask == find(updatedTasks, id)
        otherTasks == filterOthers(updatedTasks, id)
    IN IF toggledTask.completed
       THEN otherTasks \o <<toggledTask>>
       ELSE LET incompleteTasks == filterIncomplete(otherTasks)
                completedTasks == filterCompleted(otherTasks)
                insertIndex == insertLoop(toggledTask, incompleteTasks, 0, 0)
            IN splice(incompleteTasks, insertIndex, toggledTask) \o completedTasks

\* mutant of updateTaskUpdater: the renamed task is moved to the front
updateTaskUpdaterMoveFront(prev, id, title) ==
  SelectSeq([i \in 1..Len(prev) |-> [prev[i] EXCEPT !.title = title]],
            LAMBDA t : t.id = id)
    \o SelectSeq(prev, LAMBDA t : t.id # id)

\* mutant of updateTaskUpdater: the renamed task is rebuilt without the
\* spread, with completed: false
updateTaskUpdaterResetsCompleted(prev, id, title) ==
  [i \in 1..Len(prev) |->
     IF prev[i].id = id
     THEN [prev[i] EXCEPT !.title = title, !.completed = FALSE]
     ELSE prev[i]]

\* mutant of updateTaskUpdater: the store refuses an empty title
updateTaskUpdaterRejectEmpty(prev, id, title) ==
  [i \in 1..Len(prev) |->
     IF prev[i].id = id /\ title # "" THEN [prev[i] EXCEPT !.title = title]
                                       ELSE prev[i]]

\* prev.map((task) => (task.id === id ? { ...task, title } : task))
updateTaskUpdater(prev, id, title) ==
  [i \in 1..Len(prev) |->
     IF prev[i].id = id THEN [prev[i] EXCEPT !.title = title] ELSE prev[i]]

\* mutant of deleteTaskUpdater: findIndex + splice, where findIndex's -1
\* for an unknown id makes splice(-1, 1) remove the last task
deleteTaskUpdaterSplice(prev, id) ==
  IF found(prev, id) THEN filterOthers(prev, id)
  ELSE SubSeq(prev, 1, Len(prev) - 1)

\* mutant of deleteTaskUpdater: the task and its successor are removed
deleteTaskUpdaterTwo(prev, id) ==
  IF found(prev, id)
  THEN LET k == CHOOSE i \in 1..Len(prev) : prev[i].id = id
       IN SubSeq(prev, 1, k - 1) \o SubSeq(prev, k + 2, Len(prev))
  ELSE prev

\* prev.filter((task) => task.id !== id)
deleteTaskUpdater(prev, id) == filterOthers(prev, id)

\* mutant of clearCount: the length is read after the list was emptied
clearCountAfter(renderedTasks) == 0

\* clearAllTasks reads tasks.length from the closure of the last render
clearCount(renderedTasks) == Len(renderedTasks)

(* ----------------------------- state ----------------------------------- *)
\* tasks      : `tasks` as bound in the provider's last render
\* pending    : the state cell after every update issued so far
\* nextId     : the id Crypto.randomUUID() returns next
\* unrendered : updates issued since the last render
\* clock      : the lowest reading new Date() may return next, where the
\*              environment keeps the clock from going backwards (SpecMono);
\*              elsewhere it stays 0 and any reading may follow any other
\* ui         : the state of the presentation layer (TaskInput, TaskItem,
\*              the open Alert)
\* before, last, toggles, hist record past calls for the properties below:
\*   before  : the state cell just before the last call
\*   last    : the last call, its arguments and its return value
\*   toggles : per id, the parity of the toggleTask calls made on the task
\*             since addTask created it
\*   hist.doneOrder : ids of the completed tasks, in the order of the
\*                    toggleTask calls that completed them
\*   hist.born      : per id in the list, the clock reading at its addTask
\*   hist.removed   : ids removed by deleteTask or clearAllTasks
\*   trip    : where the environment watches for it (SpecOrder), the list
\*             before a toggleTask on task id, and whether the very next
\*             call toggled the same task again; elsewhere it stays NoTrip
Op(op, id, title, createdAt, ret) ==
  [op |-> op, id |-> id, title |-> title, createdAt |-> createdAt, ret |-> ret]

NoTrip == [id |-> 0, from |-> <<>>, back |-> FALSE]

\* the presentation layer at start: empty input, no editor, no dialog
\*   newTodo  : TodoInput's text
\*   edits    : per id, isEditing and editText of the task's TaskItem; an
\*              id without a mounted TaskItem holds the initial ItemInit
\*   dialog   : the Alert on screen, target : the task.id its buttons hold
\*   event    : the user's last event
\*   snapshot : the state cell when the confirmation Alert was opened, kept
\*              until the event after the Alert's answer
\*   agreed   : ids on screen when the user chose "Delete" for them or
\*              "Delete All"
\*   item     : the task.id of the TaskItem the last event was on, if it was
\*              an event of the edit flow
\*   text     : the editText that event's handleSaveEdit read
\*   theme    : whether ThemeProvider is mounted, and its isDarkMode
\*   hook     : the last event's call of useTasks() or useTheme(): whether
\*              the calling component is inside the provider, whether the
\*              call threw, and what it returned
ItemInit == [isEditing |-> FALSE, editText |-> <<>>]

NoHook == [name |-> "none", inside |-> FALSE, threw |-> FALSE, returned |-> <<>>]

UiInit ==
  [newTodo |-> <<>>, edits |-> [i \in Ids |-> ItemInit], dialog |-> "none",
   target |-> 0, event |-> "none", snapshot |-> <<>>, agreed |-> {},
   item |-> 0, text |-> <<>>,
   theme |-> [mounted |-> FALSE, isDarkMode |-> FALSE], hook |-> NoHook]

Init ==
  /\ tasks = <<>>
  /\ pending = <<>>
  /\ before = <<>>
  /\ nextId = 1
  /\ unrendered = 0
  /\ toggles = [i \in Ids |-> 0]
  /\ last = Op("init", 0, "", 0, 0)
  /\ clock = 0
  /\ hist = [doneOrder |-> <<>>, born |-> [i \in Ids |-> 0],
             removed |-> {}]
  /\ trip = NoTrip
  /\ ui = UiInit

\* ids of the tasks of a sequence
IdsOf(seq) == {seq[i].id : i \in 1..Len(seq)}

\* a sequence of ids without the given id
DropId(ids, id) == SelectSeq(ids, LAMBDA x : x # id)

\* is the task with this id in seq, and completed
IsDone(seq, id) == \E i \in 1..Len(seq) : seq[i].id = id /\ seq[i].completed

(* ---------------------------- actions ---------------------------------- *)
\* mutant of addTask: setTasks([newTask, ...tasks]) with the rendered list
\* instead of the updater's prev
addTaskStale(title, now) ==
  /\ LET newTask == [id |-> nextId, title |-> title,
                     completed |-> FALSE, createdAt |-> now]
     IN pending' = addTaskUpdater(tasks, newTask)
  /\ nextId' = nextId + 1
  /\ before' = pending
  /\ unrendered' = unrendered + 1
  /\ toggles' = [toggles EXCEPT ![nextId] = 0]
  /\ last' = Op("addTask", nextId, title, now, 0)
  /\ hist' = [hist EXCEPT !.born[nextId] = now]
  /\ UNCHANGED tasks

\* addTask(title): Crypto.randomUUID() is nextId, new Date() is now
addTask(title, now) ==
  /\ LET newTask == [id |-> nextId, title |-> title,
                     completed |-> FALSE, createdAt |-> now]
     IN pending' = addTaskUpdater(pending, newTask)
  /\ nextId' = nextId + 1
  /\ before' = pending
  /\ unrendered' = unrendered + 1
  /\ toggles' = [toggles EXCEPT ![nextId] = 0]
  /\ last' = Op("addTask", nextId, title, now, 0)
  /\ hist' = [hist EXCEPT !.born[nextId] = now]
  /\ UNCHANGED tasks

toggleTask(id) ==
  /\ pending' = toggleTaskUpdater(pending, id)
  /\ before' = pending
  /\ unrendered' = unrendered + 1
  /\ toggles' = IF id \in IdsOf(pending)
                THEN [toggles EXCEPT ![id] = (@ + 1) % 2]
                ELSE toggles
  /\ last' = Op("toggleTask", id, "", 0, 0)
  /\ hist' = [hist EXCEPT
                !.doneOrder = IF id \notin IdsOf(pending) THEN @
                              ELSE IF IsDone(pending, id) THEN DropId(@, id)
                              ELSE Append(@, id)]
  /\ UNCHANGED <<tasks, nextId>>

updateTask(id, title) ==
  /\ pending' = updateTaskUpdater(pending, id, title)
  /\ before' = pending
  /\ unrendered' = unrendered + 1
  /\ last' = Op("updateTask", id, title, 0, 0)
  /\ UNCHANGED <<tasks, nextId, toggles, hist>>

deleteTask(id) ==
  /\ pending' = deleteTaskUpdater(pending, id)
  /\ before' = pending
  /\ unrendered' = unrendered + 1
  /\ toggles' = [toggles EXCEPT ![id] = 0]
  /\ last' = Op("deleteTask", id, "", 0, 0)
  /\ hist' = [hist EXCEPT
                !.doneOrder = DropId(@, id),
                !.born[id] = 0,
                !.removed = IF id \in IdsOf(pending) THEN @ \cup {id} ELSE @]
  /\ UNCHANGED <<tasks, nextId>>

\* const count = tasks.length; setTasks([]); return count
clearAllTasks ==
  /\ pending' = <<>>
  /\ before' = pending
  /\ unrendered' = unrendered + 1
  /\ toggles' = [i \in Ids |-> 0]
  /\ last' = Op("clearAllTasks", 0, "", 0, clearCount(tasks))
  /\ hist' = [hist EXCEPT
                !.doneOrder = <<>>,
                !.born = [i \in Ids |-> 0],
                !.removed = @ \cup IdsOf(pending)]
  /\ UNCHANGED <<tasks, nextId>>

\* React re-renders TaskProvider: the closures now see the state cell
Render ==
  /\ unrendered > 0
  /\ tasks' = pending
  /\ before' = pending
  /\ unrendered' = 0
  /\ last' = Op("render", 0, "", 0, 0)
  /\ UNCHANGED <<pending, nextId, toggles, hist>>

\* the calls a collaborator can make, with the ids, titles and clock
\* readings of the bounded model
Mutation ==
  \/ /\ nextId <= MaxId
     /\ Len(pending) < MaxTasks
     /\ \E title \in Titles, now \in Times : addTask(title, now)
  \/ \E id \in Ids : toggleTask(id)
  \/ \E id \in Ids, title \in Titles : updateTask(id, title)
  \/ \E id \in Ids : deleteTask(id)
  \/ clearAllTasks

\* one mutation per user event; React flushes the update before the next event
Next ==
  \/ unrendered = 0 /\ Mutation /\ UNCHANGED <<clock, trip, ui>>
  \/ Render /\ UNCHANGED <<clock, trip, ui>>

Spec == Init /\ [][Next]_vars

\* the ordering engine alone: one title, a wider clock, no renames
\* trip after toggleTask(id) on the list seq
TripToggle(seq, id) ==
  IF id \notin IdsOf(seq) THEN NoTrip
  ELSE IF trip.id = id /\ ~trip.back THEN [trip EXCEPT !.back = TRUE]
  ELSE [id |-> id, from |-> seq, back |-> FALSE]

NextOrder ==
  \/ /\ unrendered = 0
     /\ UNCHANGED <<clock, ui>>
     /\ \/ /\ nextId <= MaxId
           /\ Len(pending) < MaxTasks
           /\ \E now \in OrderTimes : addTask("a", now)
           /\ trip' = NoTrip
        \/ \E id \in Ids : toggleTask(id) /\ trip' = TripToggle(pending, id)
        \/ trip' = NoTrip /\ \E id \in Ids : deleteTask(id)
        \/ trip' = NoTrip /\ clearAllTasks
  \/ Render /\ UNCHANGED <<clock, trip, ui>>

SpecOrder == Init /\ [][NextOrder]_vars

\* the ordering engine with a clock that never goes backwards (ties allowed)
NextMono ==
  \/ /\ unrendered = 0
     /\ UNCHANGED <<trip, ui>>
     /\ \/ /\ nextId <= MaxId
           /\ Len(pending) < MaxTasks
           /\ \E now \in OrderTimes :
                now >= clock /\ addTask("a", now) /\ clock' = now
        \/ UNCHANGED clock /\ \E id \in Ids : toggleTask(id)
        \/ UNCHANGED clock /\ \E id \in Ids : deleteTask(id)
        \/ UNCHANGED clock /\ clearAllTasks
  \/ Render /\ UNCHANGED <<clock, trip, ui>>

SpecMono == Init /\ [][NextMono]_vars

\* a collaborator issues up to MaxBatch mutations through one provider value
\* before React re-renders; lists stay shorter than MaxBatch, the clock stands
NextBatch ==
  \/ /\ unrendered < MaxBatch
     /\ UNCHANGED <<clock, trip, ui>>
     /\ \/ /\ nextId <= MaxId
           /\ Len(pending) < MaxBatch
           /\ \E title \in Titles : addTask(title, 1)
        \/ \E id \in Ids : toggleTask(id)
        \/ \E id \in Ids, title \in Titles : updateTask(id, title)
        \/ \E id \in Ids : deleteTask(id)
        \/ clearAllTasks
  \/ Render /\ UNCHANGED <<clock, trip, ui>>

SpecBatch == Init /\ [][NextBatch]_vars

(* ----------------------- presentation layer --------------------------- *)
\* String.prototype.trim(): the text without its leading and trailing
\* whitespace
RECURSIVE trimStart(_)
trimStart(s) ==
  IF s = <<>> THEN s
  ELSE IF Head(s) = " " THEN trimStart(Tail(s))
  ELSE s

RECURSIVE trimEnd(_)
trimEnd(s) ==
  IF s = <<>> THEN s
  ELSE IF s[Len(s)] = " " THEN trimEnd(SubSeq(s, 1, Len(s) - 1))
  ELSE s

trim(s) == trimEnd(trimStart(s))

\* a string in a condition: the empty string is falsy
truthy(s) == s # <<>>

\* the variables of the task store
store == <<tasks, pending, before, nextId, unrendered, toggles, last, hist>>

\* isEditing and editText of the TaskItem of task id
isEditing(id) == ui.edits[id].isEditing
editText(id) == ui.edits[id].editText

\* the presentation layer after the user's event ev
UiEvent(ev) ==
  [ui EXCEPT !.event = ev, !.snapshot = <<>>, !.item = 0, !.text = <<>>,
             !.hook = NoHook]

\* onChangeText={setNewTodo}
setNewTodo(text) ==
  /\ ui.dialog = "none"
  /\ ui' = [UiEvent("type") EXCEPT !.newTodo = text]
  /\ UNCHANGED store

\* mutant of handleAddTodo: addTask(newTodo), the text as typed
handleAddTodoUntrimmed(now) ==
  /\ ui.dialog = "none"
  /\ truthy(trim(ui.newTodo))
  /\ addTask(ui.newTodo, now)
  /\ ui' = [UiEvent("add") EXCEPT !.newTodo = <<>>]

\* TodoInput.handleAddTodo; with a blank text it does nothing
handleAddTodo(now) ==
  /\ ui.dialog = "none"
  /\ truthy(trim(ui.newTodo))
  /\ addTask(trim(ui.newTodo), now)
  /\ ui' = [UiEvent("add") EXCEPT !.newTodo = <<>>]

\* the checkbox of a TaskItem: onToggle(task.id)
onToggle(id) ==
  /\ ui.dialog = "none"
  /\ id \in IdsOf(tasks)
  /\ toggleTask(id)
  /\ ui' = UiEvent("toggle")

\* TaskItem.handleEditStart: the pencil is shown outside edit mode
handleEditStart(id) ==
  /\ ui.dialog = "none"
  /\ id \in IdsOf(tasks)
  /\ ~isEditing(id)
  /\ Cardinality({i \in Ids : isEditing(i)}) < MaxEditors
  /\ ui' = [UiEvent("editStart") EXCEPT
              !.edits[id] = [isEditing |-> TRUE,
                             editText |-> find(tasks, id).title],
              !.item = id]
  /\ UNCHANGED store

\* onChangeText={setEditText} of the TaskItem in edit mode
setEditText(id, text) ==
  /\ ui.dialog = "none"
  /\ isEditing(id)
  /\ ui' = [UiEvent("editText") EXCEPT
              !.edits[id].editText = text, !.item = id]
  /\ UNCHANGED store

\* mutant of handleSaveEdit: setEditText("") is missing
handleSaveEditKeepsText(id) ==
  /\ ui.dialog = "none"
  /\ isEditing(id)
  /\ IF truthy(trim(editText(id)))
     THEN /\ updateTask(id, trim(editText(id)))
          /\ ui' = [UiEvent("save") EXCEPT
                      !.edits[id].isEditing = FALSE,
                      !.item = id, !.text = editText(id)]
     ELSE /\ ui' = [UiEvent("saveRejected") EXCEPT
                      !.dialog = "error", !.item = id, !.text = editText(id)]
          /\ UNCHANGED store

\* TaskItem.handleSaveEdit: the button "Save" is shown in edit mode
handleSaveEdit(id) ==
  /\ ui.dialog = "none"
  /\ isEditing(id)
  /\ IF truthy(trim(editText(id)))
     THEN /\ updateTask(id, trim(editText(id)))
          /\ ui' = [UiEvent("save") EXCEPT
                      !.edits[id] = [isEditing |-> FALSE, editText |-> <<>>],
                      !.item = id, !.text = editText(id)]
     ELSE /\ ui' = [UiEvent("saveRejected") EXCEPT
                      !.dialog = "error", !.item = id, !.text = editText(id)]
          /\ UNCHANGED store

\* TaskItem.handleCancelEdit
handleCancelEdit(id) ==
  /\ ui.dialog = "none"
  /\ isEditing(id)
  /\ ui' = [UiEvent("cancelEdit") EXCEPT
              !.edits[id] = [isEditing |-> FALSE, editText |-> <<>>],
              !.item = id]
  /\ UNCHANGED store

\* mutant of handleDelete: onDelete(task.id) without the Alert
handleDeleteNoConfirm(id) ==
  /\ ui.dialog = "none"
  /\ id \in IdsOf(tasks)
  /\ ~isEditing(id)
  /\ deleteTask(id)
  /\ ui' = UiEvent("trash")

\* TaskItem.handleDelete: the trash button is shown outside edit mode and
\* opens the Alert "Delete Task"
handleDelete(id) ==
  /\ ui.dialog = "none"
  /\ id \in IdsOf(tasks)
  /\ ~isEditing(id)
  /\ ui' = [UiEvent("trash") EXCEPT !.dialog = "deleteTask",
                                    !.target = id, !.snapshot = pending]
  /\ UNCHANGED store

\* Preferences.handleResetApp opens the Alert "Clear All Tasks"
handleResetApp ==
  /\ ui.dialog = "none"
  /\ ui' = [UiEvent("reset") EXCEPT !.dialog = "clearAll",
                                    !.target = 0, !.snapshot = pending]
  /\ UNCHANGED store

\* the button "Cancel" of either confirmation: it has no onPress
pressCancel ==
  /\ ui.dialog \in {"deleteTask", "clearAll"}
  /\ ui' = [ui EXCEPT !.event = "Cancel", !.dialog = "none", !.target = 0]
  /\ UNCHANGED store

\* the button "Delete": onPress: () => onDelete(task.id), and the screen's
\* handleDeleteTask calls deleteTask(id)
pressDelete ==
  /\ ui.dialog = "deleteTask"
  /\ deleteTask(ui.target)
  /\ ui' = [UiEvent("Delete") EXCEPT
              !.dialog = "none", !.agreed = @ \cup {ui.target}]

\* the button "Delete All": clearAllTasks(), then an Alert with the result
pressDeleteAll ==
  /\ ui.dialog = "clearAll"
  /\ clearAllTasks
  /\ ui' = [UiEvent("Delete All") EXCEPT
              !.dialog = "info", !.agreed = @ \cup IdsOf(tasks)]

\* the button "OK" of an Alert that only informs
pressOK ==
  /\ ui.dialog \in {"info", "error"}
  /\ ui' = [UiEvent("OK") EXCEPT !.dialog = "none"]
  /\ UNCHANGED store

\* React re-renders the provider and the list: the TaskItem of a task that
\* left the list unmounts, its state with it
RenderItems ==
  /\ Render
  /\ ui' = [ui EXCEPT
              !.edits = [i \in Ids |->
                           IF i \in IdsOf(pending) THEN @[i] ELSE ItemInit]]

(* --------------------------- context hooks ---------------------------- *)
\* createContext<undefined | T>(undefined): the context's default value
undefined == [defined |-> FALSE, value |-> <<>>]

\* useContext(C) in a component: the value of the C.Provider above it, the
\* default where there is none
useContext(inside, value) ==
  IF inside THEN [defined |-> TRUE, value |-> value] ELSE undefined

\* value={{ tasks, addTask, ... }} of TaskContext.Provider: the rendered list
\* (the operations are the actions above)
TaskContextValue == [tasks |-> tasks]

\* value={{ isDarkMode, toggleDarkMode, colors }} of ThemeContext.Provider
ThemeContextValue ==
  [isDarkMode |-> ui.theme.isDarkMode,
   colors |-> IF ui.theme.isDarkMode THEN "darkColors" ELSE "lightColors"]

\* mutant of useTasks: the check of the context is missing
useTasksUnchecked(context) == [threw |-> FALSE, returned |-> context.value]

\* useTasks(): context is what useContext(TaskContext) gave
useTasks(context) ==
  IF ~context.defined
  THEN [threw |-> TRUE, returned |-> <<>>]
  ELSE [threw |-> FALSE, returned |-> context.value]

\* useTheme(): context is what useContext(ThemeContext) gave
useTheme(context) ==
  IF ~context.defined
  THEN [threw |-> TRUE, returned |-> <<>>]
  ELSE [threw |-> FALSE, returned |-> context.value]

\* what a call of a hook by a component inside or outside the provider did
HookCall(name, inside, result) ==
  [name |-> name, inside |-> inside, threw |-> result.threw,
   returned |-> result.returned]

\* ThemeProvider mounts: isDarkMode starts as the system's colour scheme
ThemeProviderMount(systemColorScheme) ==
  /\ ~ui.theme.mounted
  /\ ui' = [UiEvent("mount") EXCEPT
              !.theme = [mounted |-> TRUE,
                         isDarkMode |-> (systemColorScheme = "dark")]]
  /\ UNCHANGED store

\* toggleDarkMode: setIsDarkMode((prev) => !prev)
toggleDarkMode ==
  /\ ui.theme.mounted
  /\ ui' = [UiEvent("toggleDarkMode") EXCEPT !.theme.isDarkMode = ~@]
  /\ UNCHANGED store

\* a component renders and calls useTasks(); TaskProvider is mounted
callUseTasks(inside) ==
  /\ ui' = [UiEvent("useTasks") EXCEPT
              !.hook = HookCall("useTasks", inside,
                                useTasks(useContext(inside, TaskContextValue)))]
  /\ UNCHANGED store

\* a component renders and calls useTheme(); it can be inside ThemeProvider
\* only where one is mounted
callUseTheme(inside) ==
  /\ inside => ui.theme.mounted
  /\ ui' = [UiEvent("useTheme") EXCEPT
              !.hook = HookCall("useTheme", inside,
                                useTheme(useContext(inside, ThemeContextValue)))]
  /\ UNCHANGED store

\* components inside and outside the providers call the hooks while tasks
\* titled "a" are added and toggled and the theme is switched
NextHooks ==
  \/ /\ unrendered = 0
     /\ UNCHANGED <<clock, trip>>
     /\ \/ setNewTodo(<<"a">>)
        \/ /\ nextId <= MaxId
           /\ Len(pending) < MaxTasks
           /\ handleAddTodo(1)
        \/ \E id \in Ids : onToggle(id)
        \/ \E scheme \in {"light", "dark"} : ThemeProviderMount(scheme)
        \/ toggleDarkMode
        \/ \E inside \in BOOLEAN : callUseTasks(inside)
        \/ \E inside \in BOOLEAN : callUseTheme(inside)
  \/ RenderItems /\ UNCHANGED <<clock, trip>>

SpecHooks == Init /\ [][NextHooks]_vars

\* the text fields: tasks are added by TodoInput and renamed by TaskItem;
\* the clock stands
NextInput ==
  \/ /\ unrendered = 0
     /\ UNCHANGED <<clock, trip>>
     /\ \/ \E text \in Texts : setNewTodo(text)
        \/ /\ nextId <= MaxId
           /\ Len(pending) < MaxItems
           /\ handleAddTodo(1)
        \/ \E id \in Ids : handleEditStart(id)
        \/ \E id \in Ids, text \in Texts : setEditText(id, text)
        \/ \E id \in Ids : handleSaveEdit(id)
        \/ \E id \in Ids : handleCancelEdit(id)
        \/ pressOK
  \/ RenderItems /\ UNCHANGED <<clock, trip>>

SpecInput == Init /\ [][NextInput]_vars

\* the confirmations: tasks titled "a" are added, toggled and removed
\* through the screens; the clock stands
NextConfirm ==
  \/ /\ unrendered = 0
     /\ UNCHANGED <<clock, trip>>
     /\ \/ setNewTodo(<<"a">>)
        \/ /\ nextId <= MaxId
           /\ Len(pending) < MaxTasks
           /\ handleAddTodo(1)
        \/ \E id \in Ids : onToggle(id)
        \/ \E id \in Ids : handleDelete(id)
        \/ handleResetApp
        \/ pressCancel
        \/ pressDelete
        \/ pressDeleteAll
        \/ pressOK
  \/ RenderItems /\ UNCHANGED <<clock, trip>>

SpecConfirm == Init /\ [][NextConfirm]_vars

TypeOK ==
  /\ unrendered \in 0..MaxBatch
  /\ nextId \in 1..(MaxId + 1)

(* ======================== properties =================================== *)
\* In the properties, `before` and `pending` are the state cell before and
\* after the call recorded in `last`.

\* the incomplete / completed tasks of a sequence, in order
Active(seq) == SelectSeq(seq, LAMBDA t : ~t.completed)

Done(seq) == SelectSeq(seq, LAMBDA t : t.completed)

\* position of the task with the given id (ids are distinct, see C9)
PosOf(seq, id) == CHOOSE i \in 1..Len(seq) : seq[i].id = id

\* seq without its k-th element
Without(seq, k) == SubSeq(seq, 1, k - 1) \o SubSeq(seq, k + 1, Len(seq))

\* no completed task stands before an incomplete one
Partitioned(seq) ==
  \A i, j \in 1..Len(seq) : (i < j /\ seq[i].completed) => seq[j].completed

\* the last call was toggleTask on a task that was in the list
ToggledPresent == last.op = "toggleTask" /\ last.id \in IdsOf(before)

\* C1: in every reachable state every incomplete task stands before every
\* completed task, in the state cell and in the rendered list
C1_Partition == Partitioned(pending) /\ Partitioned(tasks)

\* C1 witness: a toggle has just acted on a list of three tasks that holds
\* incomplete and completed tasks
C1_Witness ==
  /\ ToggledPresent
  /\ Len(pending) = 3
  /\ ~pending[1].completed
  /\ pending[3].completed
  /\ pending[3].id # last.id

\* the slot the reactivated task t takes among the incomplete tasks inc:
\* the first position whose task is strictly older, else one past the end
Slot(inc, t) ==
  IF \E i \in 1..Len(inc) : inc[i].createdAt < t.createdAt
  THEN CHOOSE i \in 1..Len(inc) :
         /\ inc[i].createdAt < t.createdAt
         /\ \A j \in 1..(i - 1) : inc[j].createdAt >= t.createdAt
  ELSE Len(inc) + 1

\* the list of the spec's example, with the times doubled to stay integral:
\* A(t=6), B(t=4), C(t=2) incomplete, D(t=5) completed
ExTask(id, t, c) == [id |-> id, title |-> "a", completed |-> c, createdAt |-> t]

ExampleList ==
  <<ExTask(4, 6, FALSE), ExTask(2, 4, FALSE), ExTask(1, 2, FALSE), ExTask(3, 5, TRUE)>>

ExampleResult ==
  <<ExTask(4, 6, FALSE), ExTask(3, 5, FALSE), ExTask(2, 4, FALSE), ExTask(1, 2, FALSE)>>

\* C2: toggleTask on a completed task puts it, now incomplete, immediately
\* before the first incomplete task (from the front) that is strictly older,
\* or at the end of the incomplete group when there is none; the completed
\* group follows unchanged.  On the example list the result is [A, D, B, C].
C2_Reinsert ==
  /\ (ToggledPresent /\ before[PosOf(before, last.id)].completed) =>
       LET t == before[PosOf(before, last.id)]
           inc == Active(before)
           k == Slot(inc, t)
       IN pending = SubSeq(inc, 1, k - 1)
                      \o <<[t EXCEPT !.completed = FALSE]>>
                      \o SubSeq(inc, k, Len(inc))
                      \o Done(Without(before, PosOf(before, last.id)))
  /\ toggleTaskUpdater(ExampleList, 3) = ExampleResult

\* C2 witness: a completed task was reactivated and landed between a
\* strictly newer and a strictly older incomplete task
C2_Witness ==
  /\ ToggledPresent
  /\ Len(pending) = 3
  /\ before[3].id = last.id
  /\ before[3].completed
  /\ pending[2].id = last.id
  /\ \A i \in 1..3 : ~pending[i].completed
  /\ pending[1].createdAt > pending[2].createdAt
  /\ pending[2].createdAt > pending[3].createdAt

\* C3: toggleTask on an incomplete task sets completed and moves the task to
\* the last position of the whole sequence
C3_CompleteGoesLast ==
  (ToggledPresent /\ ~before[PosOf(before, last.id)].completed) =>
     /\ Len(pending) = Len(before)
     /\ pending[Len(pending)] =
          [before[PosOf(before, last.id)] EXCEPT !.completed = TRUE]

\* C3 witness: the first of three tasks was completed and moved behind a task
\* that was completed earlier
C3_Witness ==
  /\ ToggledPresent
  /\ Len(before) = 3
  /\ before[1].id = last.id
  /\ ~before[1].completed
  /\ before[3].completed
  /\ pending[3].id = last.id
  /\ pending[2].completed

\* C4: addTask(title) on L yields [newTask] followed by L: the new task has
\* completed = FALSE, the given title, the clock's reading and an id no task
\* of L has; L's tasks keep fields and positions, whatever their timestamps
C4_AddPrepends ==
  last.op = "addTask" =>
     /\ pending = <<[id |-> last.id, title |-> last.title,
                     completed |-> FALSE, createdAt |-> last.createdAt]>>
                    \o before
     /\ last.id \notin IdsOf(before)

\* C4 witness: a task was added in front of a list that holds a task with a
\* later timestamp and a completed task
C4_Witness ==
  /\ last.op = "addTask"
  /\ Len(before) = 2
  /\ before[1].createdAt > last.createdAt
  /\ before[2].completed
  /\ pending[1].id = last.id

\* C5: toggleTask, updateTask and deleteTask with an id that matches no task
\* leave the sequence unchanged
C5_UnknownIdNoOp ==
  (/\ last.op \in {"toggleTask", "updateTask", "deleteTask"}
   /\ last.id \notin IdsOf(before)) => pending = before

\* C5 witness: deleteTask was called with an unknown id on a list of two tasks
C5_Witness ==
  /\ last.op = "deleteTask"
  /\ last.id \notin IdsOf(before)
  /\ Len(before) = 2

\* C6: deleteTask(id) on a list that contains id yields the list without that
\* task: one task fewer, none with that id, the others unchanged and in order
C6_DeleteRemovesOne ==
  (last.op = "deleteTask" /\ last.id \in IdsOf(before)) =>
     /\ Len(pending) = Len(before) - 1
     /\ last.id \notin IdsOf(pending)
     /\ pending = Without(before, PosOf(before, last.id))

\* C6 witness: the middle one of three tasks, a completed one, was deleted
C6_Witness ==
  /\ last.op = "deleteTask"
  /\ Len(before) = 3
  /\ before[2].id = last.id
  /\ before[2].completed
  /\ ~before[1].completed
  /\ Len(pending) = 2

\* C7: clearAllTasks called on a rendered list of N tasks empties the list
\* and returns N (0 on the empty list)
C7_ClearReturnsCount ==
  (last.op = "clearAllTasks" /\ unrendered = 1) =>
     /\ pending = <<>>
     /\ last.ret = Len(before)

\* C7 witness: a list of three tasks was cleared
C7_Witness ==
  /\ last.op = "clearAllTasks"
  /\ unrendered = 1
  /\ Len(before) = 3

\* C8: clearAllTasks returns the number of tasks that were in the sequence
\* immediately before the clear, also when mutations were issued before it
\* and the provider has not re-rendered
C8_ClearCountUnrendered ==
  last.op = "clearAllTasks" => last.ret = Len(before)

\* C9: all ids in the sequence are pairwise distinct
Distinct(seq) ==
  \A i, j \in 1..Len(seq) : i # j => seq[i].id # seq[j].id

C9_UniqueIds == Distinct(pending) /\ Distinct(tasks)

\* C9 witness: three tasks, one of them just toggled
C9_Witness ==
  /\ ToggledPresent
  /\ Len(pending) = 3
  /\ nextId = 4

\* C10: a task's completed flag is its creation value FALSE after an even
\* number of toggleTask calls on it and TRUE after an odd number, whatever
\* other mutations happened in between
C10_ToggleParity ==
  \A i \in 1..Len(pending) :
     pending[i].completed = (toggles[pending[i].id] = 1)

\* C10 witness: the second (or a later even) toggle of a task has put it back
\* to incomplete, in a list with other tasks
C10_Witness ==
  /\ ToggledPresent
  /\ toggles[last.id] = 0
  /\ last.id \in IdsOf(pending)
  /\ Len(pending) = 3
  /\ ~pending[PosOf(pending, last.id)].completed

\* the calls that change the state cell
Mutations == {"addTask", "toggleTask", "updateTask", "deleteTask", "clearAllTasks"}

\* the last call was updateTask on a task that was in the list
UpdatedPresent == last.op = "updateTask" /\ last.id \in IdsOf(before)

\* C11: updateTask(id, title) on a present id replaces that task's title and
\* nothing else: every position keeps its id, completed and createdAt, and
\* every other task keeps its title
C11_UpdateOnlyTitle ==
  UpdatedPresent =>
     /\ Len(pending) = Len(before)
     /\ \A i \in 1..Len(before) :
          /\ pending[i].id = before[i].id
          /\ pending[i].completed = before[i].completed
          /\ pending[i].createdAt = before[i].createdAt
          /\ pending[i].title =
               IF before[i].id = last.id THEN last.title ELSE before[i].title

\* C11 witness: the completed middle task of three got another title
C11_Witness ==
  /\ UpdatedPresent
  /\ Len(before) = 3
  /\ before[2].id = last.id
  /\ before[2].completed
  /\ before[2].title # last.title
  /\ before[1].title # last.title

\* createdAt never rises from one element to the next
NonIncreasing(seq) ==
  \A i, j \in 1..Len(seq) : i < j => seq[i].createdAt >= seq[j].createdAt

\* the last call was a toggleTask that made a completed task incomplete
Reactivated == ToggledPresent /\ IsDone(before, last.id)

\* C12: with a clock that never goes backwards, after every mutation other
\* than a toggle back to incomplete the incomplete tasks are in descending
\* (non-increasing: equal readings may repeat) createdAt order
C12_ActiveDescending ==
  (last.op \in Mutations /\ ~Reactivated) => NonIncreasing(Active(pending))

\* C12 witness: a task was added in front of two incomplete tasks, with the
\* same reading as the one behind it
C12_Witness ==
  /\ last.op = "addTask"
  /\ Len(pending) = 3
  /\ \A i \in 1..3 : ~pending[i].completed
  /\ pending[1].createdAt = pending[2].createdAt
  /\ pending[2].createdAt > pending[3].createdAt

\* the ids of a sequence of tasks, in order
IdSeq(seq) == [i \in 1..Len(seq) |-> seq[i].id]

\* C13: the completed tasks stand in the order in which they were last
\* toggled to completed, whatever else was added, renamed, deleted or toggled
C13_CompletionOrder == IdSeq(Done(pending)) = hist.doneOrder

\* C13 witness: task 2 was completed before task 1, a third task was deleted
\* afterwards, and the two are still in completion order
C13_Witness ==
  /\ last.op = "deleteTask"
  /\ last.id \in IdsOf(before)
  /\ hist.doneOrder = <<2, 1>>
  /\ Len(pending) = 2

\* C14: a new task is incomplete, and the completed flag of a task that is in
\* the list before and after a call differs exactly when the call was
\* toggleTask with that task's id
C14_OnlyToggleFlips ==
  last.op \in Mutations =>
     /\ last.op = "addTask" =>
          \A i \in 1..Len(pending) :
             pending[i].id = last.id => ~pending[i].completed
     /\ \A i \in 1..Len(before), j \in 1..Len(pending) :
          before[i].id = pending[j].id =>
             ((before[i].completed # pending[j].completed)
                <=> (last.op = "toggleTask" /\ last.id = before[i].id))

\* C14 witness: a completed task was toggled back while another task stayed
\* completed and a third stayed incomplete
C14_Witness ==
  /\ Reactivated
  /\ Len(pending) = 3
  /\ pending[3].completed
  /\ \E i \in 1..2 : pending[i].id # last.id

\* C15: every task in the list carries the createdAt its addTask gave it and
\* an id that was never removed; toggleTask and updateTask keep the set of ids
C15_IdentityImmutable ==
  /\ \A i \in 1..Len(pending) :
       /\ pending[i].createdAt = hist.born[pending[i].id]
       /\ pending[i].id \notin hist.removed
  /\ last.op \in {"toggleTask", "updateTask"} => IdsOf(pending) = IdsOf(before)

\* C15 witness: a task was toggled back in a list that was refilled after a
\* removal
C15_Witness ==
  /\ Reactivated
  /\ hist.removed # {}
  /\ Len(pending) = 2

\* what the recorded call makes of the list seq, stated from the contracts
\* of the five operations
RefToggle(seq, id) ==
  IF id \notin IdsOf(seq) THEN seq
  ELSE LET p == PosOf(seq, id)
           t == seq[p]
           rest == Without(seq, p)
       IN IF ~t.completed
          THEN rest \o <<[t EXCEPT !.completed = TRUE]>>
          ELSE LET inc == Active(rest)
                   k == Slot(inc, t)
               IN SubSeq(inc, 1, k - 1) \o <<[t EXCEPT !.completed = FALSE]>>
                    \o SubSeq(inc, k, Len(inc)) \o Done(rest)

RefApply(seq, call) ==
  CASE call.op = "addTask" ->
         <<[id |-> call.id, title |-> call.title, completed |-> FALSE,
            createdAt |-> call.createdAt]>> \o seq
    [] call.op = "toggleTask" -> RefToggle(seq, call.id)
    [] call.op = "updateTask" ->
         [i \in 1..Len(seq) |->
            IF seq[i].id = call.id THEN [seq[i] EXCEPT !.title = call.title]
                                   ELSE seq[i]]
    [] call.op = "deleteTask" ->
         IF call.id \in IdsOf(seq) THEN Without(seq, PosOf(seq, call.id)) ELSE seq
    [] call.op = "clearAllTasks" -> <<>>

\* C16: every mutation is applied as a whole to the result of the mutation
\* issued before it, also when that one is not rendered yet, and the rendered
\* list is the state cell as it stood at the last render
C16_AppliedInOrder ==
  /\ last.op \in Mutations => pending = RefApply(before, last)
  /\ unrendered = 0 => tasks = pending
  /\ unrendered = 1 => tasks = before

\* C16 witness: a second mutation was issued before the first was rendered,
\* and both show in the state cell
C16_Witness ==
  /\ unrendered = 2
  /\ last.op = "addTask"
  /\ Len(pending) = 2
  /\ tasks = <<>>

\* C19: addTask adds exactly one task, with the given title, whatever the
\* title; updateTask on a present id stores the given title, the empty one
\* included
C19_AnyTitleAccepted ==
  /\ last.op = "addTask" =>
       /\ Len(pending) = Len(before) + 1
       /\ Cardinality({i \in 1..Len(pending) :
                         pending[i].id = last.id /\ pending[i].title = last.title}) = 1
  /\ UpdatedPresent => pending[PosOf(pending, last.id)].title = last.title

\* C19 witness: a task titled "a" was renamed to the empty title
C19_Witness ==
  /\ UpdatedPresent
  /\ last.title = ""
  /\ before[PosOf(before, last.id)].title = "a"

\* createdAt falls strictly from each element to the next
StrictlyDescending(seq) ==
  \A i, j \in 1..Len(seq) : i < j => seq[i].createdAt > seq[j].createdAt

\* createdAt values are pairwise distinct
DistinctTimes(seq) ==
  \A i, j \in 1..Len(seq) : i # j => seq[i].createdAt # seq[j].createdAt

\* C20 as stated: from a list whose incomplete tasks have pairwise distinct
\* createdAt, completing a task and toggling it straight back yields the
\* original sequence
C20_RoundTripDistinct ==
  (/\ trip.back
   /\ ~IsDone(trip.from, trip.id)
   /\ DistinctTimes(Active(trip.from))) => pending = trip.from

\* C20 amended: from a list whose incomplete tasks are in strictly descending
\* createdAt order, completing a task and toggling it straight back yields
\* the original sequence, the task at its original index
C20_RoundTripSorted ==
  (/\ trip.back
   /\ ~IsDone(trip.from, trip.id)
   /\ StrictlyDescending(Active(trip.from))) =>
     /\ pending = trip.from
     /\ PosOf(pending, trip.id) = PosOf(trip.from, trip.id)

\* C20 witness: the middle one of three incomplete tasks in strictly
\* descending order made the round trip
C20_Witness ==
  /\ trip.back
  /\ Len(trip.from) = 3
  /\ StrictlyDescending(trip.from)
  /\ \A i \in 1..3 : ~trip.from[i].completed
  /\ trip.from[2].id = trip.id

\* C17: no task is removed without a confirmation.  deleteTask(id) is called
\* only by the button "Delete" of the Alert that TaskItem.handleDelete opened
\* for that id, clearAllTasks only by the button "Delete All"; every id that
\* was removed was on screen when the user agreed to remove it; and after
\* "Cancel" the state cell is the one the Alert was opened on.
C17_RemovalConfirmed ==
  /\ last.op = "deleteTask" => ui.event = "Delete" /\ ui.target = last.id
  /\ last.op = "clearAllTasks" => ui.event = "Delete All"
  /\ hist.removed \subseteq ui.agreed
  /\ ui.event = "Cancel" => pending = ui.snapshot /\ tasks = ui.snapshot

\* a task was removed from a list of two through the Alert's "Delete"
C17_Witness ==
  /\ last.op = "deleteTask"
  /\ ui.event = "Delete"
  /\ Len(before) = 2
  /\ Len(pending) = 1
  /\ last.id \in hist.removed

\* the titles of a sequence are non-empty and carry no surrounding whitespace
TitlesClean(seq) ==
  \A i \in 1..Len(seq) :
    /\ seq[i].title # <<>>
    /\ Head(seq[i].title) # " "
    /\ seq[i].title[Len(seq[i].title)] # " "

\* C18: when tasks are added through TodoInput.handleAddTodo and renamed
\* through TaskItem.handleSaveEdit, every task of the state cell and of the
\* rendered list has a non-empty title without surrounding whitespace.
C18_TitlesTrimmed == TitlesClean(pending) /\ TitlesClean(tasks)

\* TodoInput added a second task; one title has inner whitespace
C18_Witness ==
  /\ last.op = "addTask"
  /\ ui.event = "add"
  /\ Len(pending) = 2
  /\ pending[1].title = <<"a">>
  /\ pending[2].title = <<"a", " ", "a">>

\* one more call of a caller that only adds and toggles, with a clock that
\* never goes backwards: s.list is the state cell, s.clock the last reading,
\* s.nid the next id, s.unsorted whether the call reactivated a task and left
\* the incomplete tasks out of non-increasing order
CallStep(s) ==
  {[list |-> addTaskUpdater(s.list, [id |-> s.nid, title |-> "a",
                                     completed |-> FALSE, createdAt |-> now]),
    clock |-> now, nid |-> s.nid + 1, unsorted |-> FALSE] :
      now \in {t \in OrderTimes : t >= s.clock /\ s.nid <= MaxId}}
  \cup
  {[list |-> toggleTaskUpdater(s.list, id), clock |-> s.clock, nid |-> s.nid,
    unsorted |-> /\ IsDone(s.list, id)
                 /\ ~NonIncreasing(Active(toggleTaskUpdater(s.list, id)))] :
      id \in IdsOf(s.list)}

\* everything such calls make of the states S
RECURSIVE CallClosure(_)
CallClosure(S) ==
  LET T == S \cup UNION {CallStep(s) : s \in S}
  IN IF T = S THEN S ELSE CallClosure(T)

\* C21 as stated: from the empty list there is a sequence of addTask and
\* toggleTask calls, with a clock that never goes backwards, after which a
\* toggle of a completed task back to incomplete leaves the incomplete tasks
\* out of non-increasing createdAt order
C21_UnsortedReachable ==
  (pending = <<>> /\ nextId = 1 /\ clock = 0) =>
     \E s \in CallClosure({[list |-> pending, clock |-> clock,
                            nid |-> nextId, unsorted |-> FALSE]}) :
        s.unsorted

\* C21 amended: with a clock that never goes backwards, after every toggle of
\* a completed task back to incomplete the incomplete tasks are in
\* non-increasing createdAt order (equal readings may stand side by side)
C21_ReactivationSortedMono ==
  Reactivated => NonIncreasing(Active(pending))

\* C21 witness: a task was reactivated and stands behind the task it ties
\* with and in front of an older one
C21_Witness ==
  /\ Reactivated
  /\ Len(pending) = 3
  /\ \A i \in 1..3 : ~pending[i].completed
  /\ pending[2].id = last.id
  /\ pending[1].createdAt = pending[2].createdAt
  /\ pending[2].createdAt > pending[3].createdAt

\* C22: if the incomplete tasks are in non-increasing createdAt order before
\* toggleTask(id) reactivates a completed task, they are in non-increasing
\* order, the reactivated task among them, after it
C22_ReinsertKeepsOrder ==
  (Reactivated /\ NonIncreasing(Active(before))) =>
     NonIncreasing(Active(pending))

\* C22 witness: the reactivated task went between a newer and an older
\* incomplete task
C22_Witness ==
  /\ Reactivated
  /\ Len(Active(before)) = 2
  /\ NonIncreasing(Active(before))
  /\ pending[2].id = last.id
  /\ pending[1].createdAt > pending[2].createdAt
  /\ pending[2].createdAt > pending[3].createdAt

\* the tasks of a sequence other than the one with the given id, in order
Others(seq, id) == SelectSeq(seq, LAMBDA t : t.id # id)

\* C23: toggleTask(id), in either direction, leaves the tasks other than the
\* toggled one as they were and in the order they were in; when it
\* reactivates a task, the incomplete ones of the other tasks followed by the
\* completed ones are the other tasks in their previous order
C23_OthersKeepOrder ==
  /\ ToggledPresent => Others(pending, last.id) = Others(before, last.id)
  /\ Reactivated =>
       Active(Others(before, last.id)) \o Done(Others(before, last.id))
         = Others(before, last.id)

\* C23 witness: a task was reactivated between an incomplete and a completed
\* task, which kept their places around it
C23_Witness ==
  /\ Reactivated
  /\ Len(before) = 3
  /\ before[2].id = last.id
  /\ ~before[1].completed
  /\ before[3].completed
  /\ pending[1].id = last.id

\* C24: toggleTask(id) on a present id permutes the sequence: the length and
\* the set of ids stay, no id repeats, every task keeps its title and
\* createdAt, and the completed flag differs for the toggled task only
C24_TogglePermutes ==
  ToggledPresent =>
     /\ Len(pending) = Len(before)
     /\ IdsOf(pending) = IdsOf(before)
     /\ Distinct(pending)
     /\ \A i \in 1..Len(before), j \in 1..Len(pending) :
          pending[j].id = before[i].id =>
             /\ pending[j].title = before[i].title
             /\ pending[j].createdAt = before[i].createdAt
             /\ (pending[j].completed # before[i].completed)
                  <=> (before[i].id = last.id)

\* C24 witness: the first of three tasks with two titles was completed and
\* moved to the end
C24_Witness ==
  /\ ToggledPresent
  /\ Len(before) = 3
  /\ before[1].id = last.id
  /\ pending[3].id = last.id
  /\ pending[3].completed
  /\ before[1].title # before[2].title

\* the reactivated task's place among the incomplete tasks after the call
ReactivatedAt == PosOf(Active(pending), last.id)

\* C25 as stated: a reactivated task never stands before an incomplete task
\* with an equal createdAt
C25_NeverBeforeTie ==
  Reactivated =>
     \A j \in 1..Len(Active(pending)) :
        (/\ j # ReactivatedAt
         /\ Active(pending)[j].createdAt = Active(pending)[ReactivatedAt].createdAt)
           => j < ReactivatedAt

\* C25 amended: a reactivated task stands behind every incomplete task that
\* precedes the first strictly older one, those with an equal createdAt
\* among them, and directly before that strictly older task, or last when
\* there is none; the task directly behind it is never one with an equal
\* createdAt
C25_AfterLeadingTies ==
  Reactivated =>
     /\ \A j \in 1..(ReactivatedAt - 1) :
          Active(pending)[j].createdAt >= Active(pending)[ReactivatedAt].createdAt
     /\ ReactivatedAt < Len(Active(pending)) =>
          Active(pending)[ReactivatedAt + 1].createdAt
            < Active(pending)[ReactivatedAt].createdAt

\* C25 witness: the reactivated task was put behind the incomplete task it
\* ties with, in front of a completed task
C25_Witness ==
  /\ Reactivated
  /\ Len(pending) = 3
  /\ pending[3].completed
  /\ pending[2].id = last.id
  /\ pending[1].createdAt = pending[2].createdAt

\* C26: toggleTask(id) twice in a row on a completed task leaves it completed
\* and last in the whole sequence; the sequence, and with it the task's place
\* among the completed tasks, is the original one exactly when the task was
\* the last one already
C26_DoubleToggleDone ==
  (trip.back /\ IsDone(trip.from, trip.id)) =>
     /\ Len(pending) = Len(trip.from)
     /\ pending[Len(pending)].id = trip.id
     /\ pending[Len(pending)].completed
     /\ (pending = trip.from)
          <=> (trip.from[Len(trip.from)].id = trip.id)
     /\ (PosOf(Done(pending), trip.id) = PosOf(Done(trip.from), trip.id))
          <=> (trip.from[Len(trip.from)].id = trip.id)

\* C26 witness: the first of two completed tasks was toggled twice and is
\* now behind the other
C26_Witness ==
  /\ trip.back
  /\ Len(trip.from) = 3
  /\ trip.from[2].id = trip.id
  /\ trip.from[2].completed
  /\ trip.from[3].completed
  /\ pending[3].id = trip.id

\* C27: in the TaskItem edit flow, after "Cancel" the item is out of edit
\* mode and no update was issued; after "Save" with a text that is empty
\* once trimmed no update was issued, the item is still in edit mode with its
\* text, and the Alert is shown; after "Save" with another text the item is
\* out of edit mode with its edit text cleared, and exactly one update was
\* issued: updateTask(task.id, the trimmed text)
C27_EditFlow ==
  /\ ui.event = "cancelEdit" =>
       /\ ui.edits[ui.item] = ItemInit
       /\ last.op \notin Mutations
       /\ pending = tasks
  /\ ui.event = "saveRejected" =>
       /\ ~truthy(trim(ui.text))
       /\ ui.edits[ui.item] = [isEditing |-> TRUE, editText |-> ui.text]
       /\ ui.dialog = "error"
       /\ last.op \notin Mutations
       /\ pending = tasks
  /\ ui.event = "save" =>
       /\ truthy(trim(ui.text))
       /\ ui.edits[ui.item] = ItemInit
       /\ unrendered <= 1
       /\ unrendered = 1 => last = Op("updateTask", ui.item, trim(ui.text), 0, 0)
       /\ unrendered = 1 => find(pending, ui.item).title = trim(ui.text)

\* C27 witness: a title with inner whitespace was replaced through "Save" by
\* a text typed with surrounding whitespace
C27_Witness ==
  /\ ui.event = "save"
  /\ unrendered = 1
  /\ ui.text = <<" ", "a", " ">>
  /\ find(before, ui.item).title = <<"a", " ", "a">>
  /\ find(pending, ui.item).title = <<"a">>

\* C28: useTasks() called by a component outside a TaskProvider and
\* useTheme() called outside a ThemeProvider throw and return nothing; called
\* inside they do not throw and return the provider's current value
C28_HooksGuarded ==
  /\ ui.hook.name \in {"useTasks", "useTheme"} =>
       (ui.hook.threw <=> ~ui.hook.inside)
  /\ ui.hook.threw => ui.hook.returned = <<>>
  /\ (ui.hook.name = "useTasks" /\ ui.hook.inside) =>
       ui.hook.returned.tasks = tasks
  /\ (ui.hook.name = "useTheme" /\ ui.hook.inside) =>
       /\ ui.hook.returned.isDarkMode = ui.theme.isDarkMode
       /\ ui.hook.returned.colors = "darkColors" <=> ui.theme.isDarkMode

\* C28 witness: with two tasks in the provider, a component outside it
\* called useTasks(), which threw
C28_Witness ==
  /\ ui.hook.name = "useTasks"
  /\ ~ui.hook.inside
  /\ ui.hook.threw
  /\ Len(tasks) = 2

====
